---- MODULE Spec2Model ----
(***************************************************************************)
(* LEO link simulator: orbit/visibility model (orbit_leo.py), RF channel   *)
(* (rf_channel_leo.py), spacecraft node (satellite_leo.py) and ground      *)
(* baseband unit (bbu_leo.py).                                             *)
(*                                                                         *)
(* Units.  Python floats are modelled by integers: angles in milli-degrees,*)
(* rates in bit/s (rate_mbps * 10^6), probabilities and the values of sin  *)
(* and of real powers in parts per million (ppm).  Transcendental values   *)
(* are tabulated at the sample points the model uses.  doppler_hz is not   *)
(* modelled: nothing downstream branches on it.                            *)
(***************************************************************************)
EXTENDS Integers, Sequences, FiniteSets, TLC

VARIABLES
    now,            \* time.time(), seconds
    cfg,            \* DEFAULT_ORBIT.cfg (OrbitConfig)
    sf_ready,       \* OrbitModel._sf_ready
    orb_st,         \* result of the last direct get_state(t) query
    tle_ok,         \* the orbital elements of cfg are well formed
    sf_ts,          \* OrbitModel._ts is not None
    sf_sat,         \* OrbitModel._sat and ._gs are not None
    orb_err,        \* the exception the last direct query raised, or "none"
    chan,           \* rf_channel_leo module parameters (BASE_*, BURST_*)
    in_fade,        \* rf_channel_leo._in_fade
    fade_remaining, \* rf_channel_leo._fade_remaining
    prop,           \* per caller: the activation record of propagate
    fadeDrops,      \* ghost: DROPPED results caused by the current/last fade
    h_pc,           \* sequential caller of propagate: position
    h_in,           \* sequential caller: the packet it passed
    h_out,          \* sequential caller: what propagate returned
    running,        \* satellite_leo.running
    tm_pc,          \* telemetry_sender: position
    tm_st,          \* telemetry_sender: st, the tick's geometry snapshot
    tm_max,         \* telemetry_sender: max_pkts
    tm_i,           \* telemetry_sender: iterations of the for loop done
    seq,            \* telemetry_sender: seq, as <<high 16 bits, low 16 bits>>
    tickGen,        \* ghost: packets passed to the channel in this tick
    tickSent,       \* ghost: TM datagrams sent to the BBU in this tick
    tickSeqs,       \* ghost: the seq of each of them, in send order
    lastSend,       \* ghost: for the last of them, visible in the tick's snapshot
                    \*        and visible in the geometry at the time of the send
    lastGen,        \* ghost: seq of the packet generated last
    genTotal,       \* ghost: packets generated so far
    tc_todo,        \* datagrams the ground has yet to send
    tc_net,         \* UDP datagrams in flight to SAT_TC_PORT
    sat_q,          \* satellite_leo._tc_queue
    rx_pc,          \* telecommand_receiver: position
    ex_pc,          \* telecommand_executor: position
    ex_st,          \* telecommand_executor: st
    ex_cmd,         \* telecommand_executor: cmd
    ex_last,        \* ghost: what the executor did with its last command
    satEnq,         \* ghost: commands appended to _tc_queue, in order
    exLog,          \* ghost: per command the executor dequeued: the snapshot's
                    \*        visible, what the channel returned, what it did
    tm_net,             \* UDP datagrams in flight to BBU_TM_PORT
    tmRx,               \* ghost: TM datagrams the BBU has received so far
    brx_pc,             \* tm_receiver: position
    brx_raw,            \* tm_receiver: raw, tagged with the ghost arrival number
    brx_tmp,            \* tm_receiver: the slice telemetry_live[-2000:]
    telemetry_history,  \* bbu_leo.telemetry_history
    telemetry_live,     \* bbu_leo.telemetry_live
    everHist,           \* ghost: arrivals ever appended to telemetry_history
    everLive,           \* ghost: arrivals ever appended to telemetry_live
    rxVisible,          \* ghost: arrivals for which is_visible() returned True
    rxDone,             \* ghost: arrivals whose handling is complete
    web_up,             \* the Web client's TM connection is open
    d_pc,               \* tm_server_for_web: position
    d_tm,               \* tm_server_for_web: tm
    d_tag,              \* tm_server_for_web: the tag of msg
    livePopped,         \* ghost: arrivals popped from telemetry_live, in order
    liveSent,           \* ghost: arrivals delivered with the LIVE tag, in order
    truncRemoved,       \* ghost: arrivals tm_receiver's truncation took out of telemetry_live
    prevHist,           \* ghost: the frame of the last HIST read and whether it repeated the
                        \*        one before, while no ingress has followed it
    s_obs,              \* status_printer: the lengths it printed last
    d_conn,             \* ghost: TM stream connections accepted and not closed, and
                        \*        whether a send has failed on an earlier one
    web_todo,           \* TC messages the Web has yet to send
    telecommand_queue,  \* bbu_leo.telecommand_queue
    tx_pc,              \* tc_sender: position
    tx_st,              \* tc_sender: st
    tx_tc,              \* tc_sender: tc
    tx_out,             \* tc_sender: pkt2
    b_in_fade,          \* rf_channel_leo._in_fade in the BBU process
    b_fade_remaining,   \* rf_channel_leo._fade_remaining in the BBU process
    bbuEnq,             \* ghost: commands appended to telecommand_queue, in order
    txLog,              \* ghost: per command popped by tc_sender: the snapshot's
                        \*        visible, the channel verdict, the datagrams sent
    txSent,             \* ghost: datagrams tc_sender has sent, in order
    b_running,          \* bbu_leo.running
    tcw_pc,             \* tc_receiver_from_web: position
    exited              \* the processes whose main thread has returned

orbitVars == <<now, cfg, sf_ready, orb_st, tle_ok, sf_ts, sf_sat, orb_err>>
chanVars  == <<chan, in_fade, fade_remaining, prop, fadeDrops>>
harnVars  == <<h_pc, h_in, h_out>>
tmVars    == <<tm_pc, tm_st, tm_max, tm_i, seq, tickGen, tickSent, lastGen, genTotal,
               tickSeqs, lastSend>>
tcVars    == <<tc_todo, tc_net, sat_q, rx_pc, ex_pc, ex_st, ex_cmd, ex_last, satEnq, exLog>>
satVars   == <<running, tmVars, tcVars>>
bbuVars   == <<tm_net, tmRx, brx_pc, brx_raw, brx_tmp, telemetry_history,
               telemetry_live, everHist, everLive, rxVisible, rxDone>>
webVars   == <<web_up, d_pc, d_tm, d_tag, livePopped, liveSent, truncRemoved,
               prevHist, s_obs, d_conn>>
upVars    == <<web_todo, telecommand_queue, tx_pc, tx_st, tx_tc, tx_out, b_in_fade,
               b_fade_remaining, bbuEnq, txLog, txSent, b_running, tcw_pc, exited>>
vars == <<orbitVars, chanVars, harnVars, satVars, bbuVars, webVars, upVars>>

Min(a, b) == IF a < b THEN a ELSE b
Max(a, b) == IF a > b THEN a ELSE b

\* a * b / 10^6 for operands up to 4 * 10^6, kept within TLC's 32-bit integers.
MulPpm(a, b) == ((a \div 100) * (b \div 100)) \div 100

(***************************************************************************)
(* orbit_leo.py                                                            *)
(***************************************************************************)
DEFAULT_ELEV_MASK_DEG == 10000
DEFAULT_DL_MAX_RATE_Mbps == 258000
DEFAULT_UL_MAX_RATE_Mbps == 50000
DEFAULT_RATE_ALPHA == 15          \* tenths: 1.5
FALLBACK_ORBIT_PERIOD_S == 5400

\* OrbitConfig: the fields get_state reads.
OrbitConfig(mask, dl, ul, alpha) ==
    [elev_mask_deg |-> mask, dl_max_rate_mbps |-> dl,
     ul_max_rate_mbps |-> ul, rate_alpha |-> alpha]

DefaultOrbitConfig ==
    OrbitConfig(DEFAULT_ELEV_MASK_DEG, DEFAULT_DL_MAX_RATE_Mbps,
                DEFAULT_UL_MAX_RATE_Mbps, DEFAULT_RATE_ALPHA)

\* math.sin(math.radians(e)) in ppm, at the elevations the back-ends produce.
SinDeg(e) ==
    CASE e = -5000 -> -87156
      [] e = 0     -> 0
      [] e = 10000 -> 173648
      [] e = 30000 -> 500000
      [] e = 45000 -> 707107
      [] e = 63639 -> 896014
      [] e = 90000 -> 1000000

\* norm ** alpha in ppm (alpha in tenths).  Python: x ** 0.0 = 1.0, also for x = 0.
PowAlpha(norm, alpha) ==
    CASE alpha = 0  -> 1000000
      [] alpha = 10 -> norm
      [] alpha = 15 ->
            CASE norm = 0       -> 0
              [] norm = 173648  -> 72361
              [] norm = 500000  -> 353553
              [] norm = 707107  -> 594604
              [] norm = 896014  -> 848149
              [] norm = 1000000 -> 1000000

data_rate_mbps_lt(elev_deg, max_rate_mbps, alpha, elev_mask_deg) ==
    IF elev_deg < elev_mask_deg
    THEN 0
    ELSE MulPpm(max_rate_mbps, PowAlpha(Min(Max(SinDeg(elev_deg), 0), 1000000), alpha))

data_rate_mbps(elev_deg, max_rate_mbps, alpha, elev_mask_deg) ==
    IF elev_deg <= elev_mask_deg
    THEN 0
    ELSE LET norm0 == SinDeg(elev_deg)
             norm1 == IF norm0 < 0 THEN 0 ELSE norm0
             norm  == IF norm1 > 1000000 THEN 1000000 ELSE norm1
         IN  MulPpm(max_rate_mbps, PowAlpha(norm, alpha))

\* Elevation the propagator library reports at time t (input data: one pass
\* profile through below-horizon, the default mask, mid and zenith).
state_skyfield(t) ==
    CASE t = 0    -> -5000
      [] t = 1350 -> 10000
      [] t = 2700 -> 30000
      [] t = 4050 -> 90000
      [] t = 5400 -> 45000
      [] t = 6750 -> 0

\* math.sin(math.pi * phase) in ppm for phase = p / FALLBACK_ORBIT_PERIOD_S.
SinPiPhase(p) ==
    CASE p = 0    -> 0
      [] p = 1350 -> 707107
      [] p = 2700 -> 1000000
      [] p = 4050 -> 707107

state_fallback(t) ==
    LET phase == t % FALLBACK_ORBIT_PERIOD_S
    IN  (90 * Max(0, SinPiPhase(phase))) \div 1000

get_state_ge(t) ==
    LET elev_deg == IF sf_ready THEN state_skyfield(t) ELSE state_fallback(t)
    IN  [ts           |-> t,
         elev_deg     |-> elev_deg,
         visible      |-> elev_deg >= cfg.elev_mask_deg,
         rate_dl_mbps |-> data_rate_mbps(elev_deg, cfg.dl_max_rate_mbps,
                                         cfg.rate_alpha, cfg.elev_mask_deg),
         rate_ul_mbps |-> data_rate_mbps(elev_deg, cfg.ul_max_rate_mbps,
                                         cfg.rate_alpha, cfg.elev_mask_deg)]

get_state(t) ==
    LET elev_deg == IF sf_ready THEN state_skyfield(t) ELSE state_fallback(t)
    IN  [ts           |-> t,
         elev_deg     |-> elev_deg,
         visible      |-> elev_deg > cfg.elev_mask_deg,
         rate_dl_mbps |-> data_rate_mbps(elev_deg, cfg.dl_max_rate_mbps,
                                         cfg.rate_alpha, cfg.elev_mask_deg),
         rate_ul_mbps |-> data_rate_mbps(elev_deg, cfg.ul_max_rate_mbps,
                                         cfg.rate_alpha, cfg.elev_mask_deg)]

\* No get_state result yet.
NoState ==
    [ts |-> -1, elev_deg |-> 0, visible |-> FALSE,
     rate_dl_mbps |-> 0, rate_ul_mbps |-> 0]

\* Sample times: one and a half fallback periods.
OrbitTimes == {0, 1350, 2700, 4050, 5400, 6750}

\* Configurations: masks below, at and above the default; zero, small and
\* default maximum rates; exponents 0 and the default 1.5.
OrbitCfgs ==
    { OrbitConfig(m, dl, ul, a) :
        m \in {-10000, DEFAULT_ELEV_MASK_DEG, 45000},
        dl \in {0, 5000, DEFAULT_DL_MAX_RATE_Mbps},
        ul \in {0, DEFAULT_UL_MAX_RATE_Mbps},
        a \in {0, DEFAULT_RATE_ALPHA} }

(***************************************************************************)
(* rf_channel_leo.py                                                       *)
(***************************************************************************)
BASE_PACKET_LOSS == 80000         \* 0.08
BASE_BIT_ERROR == 20000           \* 0.02
BASE_DUPLICATE == 2000            \* 0.002
BURST_FADE_START_PROB == 1500     \* 0.0015
\* 25 in the source; scaled down, the fade logic does not depend on the value.
BURST_FADE_LENGTH_PKTS == 2

ChanParams(loss, ber, dup, burst) ==
    [BASE_PACKET_LOSS |-> loss, BASE_BIT_ERROR |-> ber,
     BASE_DUPLICATE |-> dup, BURST_FADE_START_PROB |-> burst]

DefaultChan ==
    ChanParams(BASE_PACKET_LOSS, BASE_BIT_ERROR, BASE_DUPLICATE,
               BURST_FADE_START_PROB)

\* The module as shipped, the lossless setting, and certain fade ignition.
ChanCfgs ==
    { DefaultChan,
      ChanParams(0, 0, 0, 0),
      ChanParams(BASE_PACKET_LOSS, BASE_BIT_ERROR, BASE_DUPLICATE, 1000000) }

\* Values random.random() can return, in ppm: the least and the greatest.
RandomDraws == {0, 999999}

Draw_le(r, p) == r <= p

\* random.random() < p
Draw(r, p) == r < p

\* q in ppm; the mask is the function's default argument (10.0), not cfg's.
link_quality_from_elev(elev_deg) ==
    IF elev_deg <= 10000
    THEN 0
    ELSE LET q0 == ((elev_deg - 10000) * 1000) \div ((90000 - 10000) \div 1000)
             q1 == IF q0 < 0 THEN 0 ELSE q0
         IN  IF q1 > 1000000 THEN 1000000 ELSE q1

\* x ** 1.6 in ppm at the values of 1 - q the sampled elevations give.
Pow16(x) ==
    CASE x = 0       -> 0
      [] x = 329513  -> 169276
      [] x = 562500  -> 398287
      [] x = 750000  -> 631100
      [] x = 1000000 -> 1000000

\* str.lower() on the direction strings callers pass.
Lower(d) ==
    CASE d = "UPLINK" -> "uplink"
      [] d = "Uplink" -> "uplink"
      [] OTHER -> d

FadeStartProb(q) ==
    MulPpm(chan.BURST_FADE_START_PROB, 1000000 + (1000000 - q) * 3)

LossProb(q, direction) ==
    LET loss_p == MulPpm(chan.BASE_PACKET_LOSS, Pow16(1000000 - q))
    IN  IF Lower(direction) = "uplink" THEN (loss_p * 115) \div 100 ELSE loss_p

BerProb(q, direction) ==
    LET ber_p == MulPpm(chan.BASE_BIT_ERROR, MulPpm(1000000 - q, 1000000 - q))
    IN  IF Lower(direction) = "uplink" THEN (ber_p * 110) \div 100 ELSE ber_p

DupProb(q) ==
    MulPpm(chan.BASE_DUPLICATE, 1000000 + (1000000 - q))

\* dict.get(key, default)
Get(packet, key, default) ==
    IF key \in DOMAIN packet THEN packet[key] ELSE default

\* The dict after out[key] = value.
SetItem(packet, key, value) ==
    [f \in DOMAIN packet \cup {key} |-> IF f = key THEN value ELSE packet[f]]

\* What propagate returns: None (DROPPED) or a packet.
None == [none |-> TRUE, pkt |-> [type |-> "None"]]
Some(packet) == [none |-> FALSE, pkt |-> packet]
\* propagate has not returned.
NoRet == [none |-> TRUE, pkt |-> [type |-> "NoRet"]]

Survivor_clear(packet, bit_error, dup) ==
    LET out1 == IF bit_error
                THEN SetItem(SetItem(packet, "corrupted", TRUE), "rf_note", "bit_error")
                ELSE SetItem(packet, "corrupted", FALSE)
    IN  SetItem(out1, "duplicated", dup)

\* Lines 91-111: the packet that survives, given the bit-error and duplicate draws.
Survivor(packet, bit_error, dup) ==
    LET out0 == packet
        out1 == IF bit_error
                THEN SetItem(SetItem(out0, "corrupted", TRUE), "rf_note", "bit_error")
                ELSE SetItem(out0, "corrupted", Get(out0, "corrupted", FALSE))
    IN  SetItem(out1, "duplicated", dup)

\* Threads that call propagate on one process's fade state: the spacecraft's
\* TM producer and TC executor, and a sequential caller.
Callers == {"tm", "ex", "h"}

IdleFrame ==
    [pc |-> "idle", packet |-> [type |-> "None"], elev_deg |-> 0,
     direction |-> "downlink", tmp |-> 0, out |-> NoRet, ber |-> FALSE]

\* A call of propagate(packet, elev_deg, direction) by caller t.  ber is a
\* ghost: whether the call's bit-error draw (line 96) was made and succeeded.
Call(t, packet, elev_deg, direction) ==
    [prop EXCEPT ![t] = [pc |-> "test", packet |-> packet, elev_deg |-> elev_deg,
                         direction |-> direction, tmp |-> 0, out |-> NoRet,
                         ber |-> FALSE]]

\* The caller takes the returned value.
Return(t) == [prop EXCEPT ![t] = IdleFrame]

Goto(t, label) == [prop EXCEPT ![t].pc = label]
RetNone(t) == [prop EXCEPT ![t].pc = "ret", ![t].out = None]

\* Ghost bookkeeping, kept for the sequential caller only.
CountFadeDrop(t) == IF t = "h" THEN fadeDrops + 1 ELSE fadeDrops
FirstFadeDrop(t) == IF t = "h" THEN 1 ELSE fadeDrops

\* lines 65-71: time.sleep(PROPAGATION_DELAY_S); q, fade_start; if _in_fade
PTest(t) ==
    /\ prop[t].pc = "test"
    /\ prop' = Goto(t, IF in_fade THEN "dec_load" ELSE "draw")
    /\ UNCHANGED <<chan, in_fade, fade_remaining, fadeDrops>>

\* line 72: _fade_remaining -= 1, the load
PDecLoad(t) ==
    /\ prop[t].pc = "dec_load"
    /\ prop' = [prop EXCEPT ![t].pc = "dec_store", ![t].tmp = fade_remaining]
    /\ UNCHANGED <<chan, in_fade, fade_remaining, fadeDrops>>

\* line 72: _fade_remaining -= 1, the store
PDecStore(t) ==
    /\ prop[t].pc = "dec_store"
    /\ fade_remaining' = prop[t].tmp - 1
    /\ prop' = Goto(t, "chk")
    /\ UNCHANGED <<chan, in_fade, fadeDrops>>

PChk_lt(t) ==
    /\ prop[t].pc = "chk"
    /\ IF fade_remaining < 0
       THEN prop' = Goto(t, "clear") /\ UNCHANGED fadeDrops
       ELSE prop' = RetNone(t) /\ fadeDrops' = CountFadeDrop(t)
    /\ UNCHANGED <<chan, in_fade, fade_remaining>>

\* line 73: if _fade_remaining <= 0; otherwise line 75: return None
PChk(t) ==
    /\ prop[t].pc = "chk"
    /\ IF fade_remaining <= 0
       THEN prop' = Goto(t, "clear") /\ UNCHANGED fadeDrops
       ELSE prop' = RetNone(t) /\ fadeDrops' = CountFadeDrop(t)
    /\ UNCHANGED <<chan, in_fade, fade_remaining>>

\* lines 74-75: _in_fade = False; return None
PClear(t) ==
    /\ prop[t].pc = "clear"
    /\ in_fade' = FALSE
    /\ prop' = RetNone(t)
    /\ fadeDrops' = CountFadeDrop(t)
    /\ UNCHANGED <<chan, fade_remaining>>

\* line 77: if random.random() < fade_start; when the draw fails, lines
\* 83-111: the loss, bit-error and duplicate draws and the return.  Nothing
\* here reads or writes the shared fade state.
PDraw(t) ==
    /\ prop[t].pc = "draw"
    /\ \E r_fade \in RandomDraws, r_loss \in RandomDraws,
          r_ber \in RandomDraws, r_dup \in RandomDraws :
         LET q == link_quality_from_elev(prop[t].elev_deg)
             d == prop[t].direction
         IN  IF Draw(r_fade, FadeStartProb(q))
             THEN prop' = Goto(t, "set1")
             ELSE prop' = [prop EXCEPT
                     ![t].pc = "ret",
                     ![t].out =
                         IF Draw(r_loss, LossProb(q, d))
                         THEN None
                         ELSE Some(Survivor(prop[t].packet,
                                            Draw(r_ber, BerProb(q, d)),
                                            Draw(r_dup, DupProb(q)))),
                     ![t].ber = /\ ~Draw(r_loss, LossProb(q, d))
                                /\ Draw(r_ber, BerProb(q, d))]
    /\ UNCHANGED <<chan, in_fade, fade_remaining, fadeDrops>>

\* line 78: _in_fade = True
PSet1(t) ==
    /\ prop[t].pc = "set1"
    /\ in_fade' = TRUE
    /\ prop' = Goto(t, "set2")
    /\ UNCHANGED <<chan, fade_remaining, fadeDrops>>

\* lines 79-80: _fade_remaining = BURST_FADE_LENGTH_PKTS; return None
PSet2(t) ==
    /\ prop[t].pc = "set2"
    /\ fade_remaining' = BURST_FADE_LENGTH_PKTS
    /\ prop' = RetNone(t)
    /\ fadeDrops' = FirstFadeDrop(t)
    /\ UNCHANGED <<chan, in_fade>>

\* One step of caller t inside propagate.
Propagate(t) ==
    \/ PTest(t)
    \/ PDecLoad(t)
    \/ PDecStore(t)
    \/ PChk(t)
    \/ PClear(t)
    \/ PDraw(t)
    \/ PSet1(t)
    \/ PSet2(t)

\* Caller t is between its test of _in_fade and the end of its update.
InTransition(t) ==
    prop[t].pc \in {"dec_load", "dec_store", "chk", "clear", "draw", "set1", "set2"}

(***************************************************************************)
(* Initial states of the parts (module load / construction).               *)
(***************************************************************************)
OrbitInit(cfgs, sf, elems) ==
    /\ now = 0
    /\ cfg \in cfgs
    /\ sf_ready \in sf
    /\ orb_st = NoState
    /\ tle_ok \in elems
    /\ sf_ts = FALSE
    /\ sf_sat = FALSE
    /\ orb_err = "none"

\* rf_channel_leo.py lines 35-36
ChanInit(params) ==
    /\ chan \in params
    /\ in_fade = FALSE
    /\ fade_remaining = 0
    /\ prop = [t \in Callers |-> IdleFrame]
    /\ fadeDrops = 0

HarnInit ==
    /\ h_pc = "idle"
    /\ h_in = [type |-> "None"]
    /\ h_out = NoRet

\* No TM datagram sent in this tick.
NoSend == [sent |-> FALSE, snap |-> FALSE, at |-> FALSE]

\* The executor holds no command.
NoCmd == <<-1>>

\* satellite_leo.py lines 41, 46, 64; seq is 0 at thread start, and any other
\* value of seqs is the counter after that many packets.
SatInit(seqs, datagrams) ==
    /\ running = TRUE
    /\ tm_pc = "top"
    /\ tm_st = NoState
    /\ tm_max = 0
    /\ tm_i = 0
    /\ seq \in seqs
    /\ tickGen = 0
    /\ tickSent = 0
    /\ tickSeqs = <<>>
    /\ lastSend = NoSend
    /\ lastGen = <<-1, -1>>
    /\ genTotal = 0
    /\ tc_todo = datagrams
    /\ tc_net = <<>>
    /\ sat_q = <<>>
    /\ rx_pc = "top"
    /\ ex_pc = "top"
    /\ ex_st = NoState
    /\ ex_cmd = NoCmd
    /\ ex_last = "none"
    /\ satEnq = <<>>
    /\ exLog = <<>>

\* No frame in hand.
NoFrame == [id |-> 0, raw |-> <<>>]

\* bbu_leo.py lines 33-34
BbuInit ==
    /\ tm_net = <<>>
    /\ tmRx = 0
    /\ brx_pc = "recv"
    /\ brx_raw = NoFrame
    /\ brx_tmp = <<>>
    /\ telemetry_history = <<>>
    /\ telemetry_live = <<>>
    /\ everHist = {}
    /\ everLive = {}
    /\ rxVisible = {}
    /\ rxDone = {}

\* bbu_leo.py line 35; rf_channel_leo.py lines 35-36 as imported by the BBU
UpInit(msgs) ==
    /\ web_todo = msgs
    /\ telecommand_queue = <<>>
    /\ tx_pc = "top"
    /\ tx_st = NoState
    /\ tx_tc = NoCmd
    /\ tx_out = NoRet
    /\ b_in_fade = FALSE
    /\ b_fade_remaining = 0
    /\ bbuEnq = <<>>
    /\ txLog = <<>>
    /\ txSent = <<>>
    /\ b_running = TRUE
    /\ tcw_pc = "accept"
    /\ exited = {}

\* No HIST read since the last ingress.
NoPrev == [frame |-> NoFrame, again |-> FALSE]

\* bbu_leo.py: tm_server_for_web waits in accept(); status_printer has printed nothing
WebInit ==
    /\ web_up = FALSE
    /\ d_pc = "accept"
    /\ d_tm = NoFrame
    /\ d_tag = "none"
    /\ livePopped = <<>>
    /\ liveSent = <<>>
    /\ truncRemoved = {}
    /\ prevHist = NoPrev
    /\ s_obs = [live |-> 0, hist |-> 0]
    /\ d_conn = [open |-> 0, failed |-> FALSE]

(***************************************************************************)
(* get_state as a function of time and configuration.                      *)
(***************************************************************************)
\* orb_st = DEFAULT_ORBIT.get_state(t).  With the library present the first
\* call runs _sf_init: _ts is set, then EarthSatellite parses the elements
\* and raises on malformed ones; a later call finds _ts set, skips the
\* initialisation and fails the assert on _sat.
OrbitQuery ==
    /\ \E t \in OrbitTimes :
         /\ now' = t
         /\ IF ~sf_ready
            THEN /\ orb_st' = get_state(t)
                 /\ orb_err' = "none"
                 /\ UNCHANGED <<sf_ts, sf_sat>>
            ELSE IF ~sf_ts
            THEN /\ sf_ts' = TRUE
                 /\ sf_sat' = tle_ok
                 /\ orb_st' = IF tle_ok THEN get_state(t) ELSE NoState
                 /\ orb_err' = IF tle_ok THEN "none" ELSE "ValueError"
            ELSE /\ orb_st' = IF sf_sat THEN get_state(t) ELSE NoState
                 /\ orb_err' = IF sf_sat THEN "none" ELSE "AssertionError"
                 /\ UNCHANGED <<sf_ts, sf_sat>>
    /\ UNCHANGED <<cfg, sf_ready, tle_ok, chanVars, harnVars, bbuVars, webVars, satVars,
                   upVars>>

InitOrbit ==
    /\ OrbitInit(OrbitCfgs, BOOLEAN, BOOLEAN)
    /\ ChanInit({DefaultChan})
    /\ HarnInit
    /\ SatInit({<<0, 0>>}, {})
    /\ BbuInit
    /\ WebInit
    /\ UpInit({})

NextOrbit == OrbitQuery

SpecOrbit == InitOrbit /\ [][NextOrbit]_vars

(***************************************************************************)
(* propagate called by one thread, call after call (the quick-debug loop   *)
(* of rf_channel_leo.py lines 113-128, with arbitrary arguments).          *)
(***************************************************************************)
PacketInputs ==
    { [seq |-> 1],
      [seq |-> 1, corrupted |-> FALSE],
      [seq |-> 1, corrupted |-> TRUE],
      [seq |-> 1, corrupted |-> FALSE, duplicated |-> FALSE],
      [seq |-> 1, corrupted |-> TRUE, duplicated |-> TRUE],
      [seq |-> 1, corrupted |-> FALSE, duplicated |-> FALSE, rf_note |-> "old"] }

ChanElevs == {-5000, 10000, 30000, 90000, 95000}

Directions == {"downlink", "uplink", "UPLINK"}

\* r = propagate(pkt, e, d): the call
HCall ==
    /\ h_pc = "idle"
    /\ \E packet \in PacketInputs, e \in ChanElevs, d \in Directions :
         /\ prop' = Call("h", packet, e, d)
         /\ h_in' = packet
    /\ h_pc' = "wait"
    /\ h_out' = NoRet
    /\ UNCHANGED <<orbitVars, chan, in_fade, fade_remaining, fadeDrops, satVars,
                   bbuVars, webVars,
                   upVars>>

\* r = propagate(pkt, e, d): the return
HRet ==
    /\ h_pc = "wait"
    /\ prop["h"].pc = "ret"
    /\ h_out' = prop["h"].out
    /\ prop' = Return("h")
    /\ h_pc' = "idle"
    /\ UNCHANGED <<orbitVars, chan, in_fade, fade_remaining, fadeDrops, h_in,
                   satVars, bbuVars, webVars,
                   upVars>>

HStep ==
    /\ Propagate("h")
    /\ UNCHANGED <<orbitVars, harnVars, bbuVars, webVars, satVars,
                   upVars>>

InitChan ==
    /\ OrbitInit({DefaultOrbitConfig}, {FALSE}, {TRUE})
    /\ ChanInit(ChanCfgs)
    /\ HarnInit
    /\ SatInit({<<0, 0>>}, {})
    /\ BbuInit
    /\ WebInit
    /\ UpInit({})

NextChan == HCall \/ HStep \/ HRet

SpecChan == InitChan /\ [][NextChan]_vars

(***************************************************************************)
(* satellite_leo.py: the spacecraft process.  telemetry_sender and         *)
(* telecommand_executor both call propagate of the one rf_channel_leo      *)
(* module, whose state has no lock.  Locals are reset where they die (st,  *)
(* max_pkts and cmd at the end of an iteration, the executor's st at its   *)
(* last use).                                                              *)
(***************************************************************************)
TIME_STEP_S == 1
PAYLOAD_BYTES == 256
HEADER_BYTES == 32
BITS_PER_PACKET == (PAYLOAD_BYTES + HEADER_BYTES) * 8
\* 2000 in the source; scaled down so that a burst stays small.
MAX_PKTS_PER_STEP == 2

\* A tick starts only while fewer packets than this have been generated.
MaxGen == 2

SeqInc_nocarry(s) == <<s[1], (s[2] + 1) % 65536>>

\* (seq + 1) & 0xFFFFFFFF on <<high, low>> 16-bit halves.
SeqInc(s) ==
    LET lo == (s[2] + 1) % 65536
        hi == IF lo = 0 THEN (s[1] + 1) % 65536 ELSE s[1]
    IN  <<hi, lo>>

MaxPkts_noclamp(st) ==
    (st.rate_dl_mbps * TIME_STEP_S) \div BITS_PER_PACKET

\* lines 80-86: max_pkts for the snapshot st (0: the tick is skipped)
MaxPkts(st) ==
    LET bits_step == st.rate_dl_mbps * TIME_STEP_S
        max_pkts  == bits_step \div BITS_PER_PACKET
    IN  IF max_pkts <= 0 THEN 0
        ELSE IF max_pkts > MAX_PKTS_PER_STEP THEN MAX_PKTS_PER_STEP
        ELSE max_pkts

\* lines 89-98: tm_packet
TmPacket(st) ==
    [type |-> "TM", seq |-> seq, ts |-> st.ts, elev_deg |-> st.elev_deg,
     visible |-> TRUE, corrupted |-> FALSE, payload_len |-> PAYLOAD_BYTES]

TmTop_nogate ==
    /\ tm_pc = "top"
    /\ running
    /\ genTotal < MaxGen
    /\ tm_st' = get_state(now)
    /\ tm_max' = MAX_PKTS_PER_STEP
    /\ tm_pc' = "loop"
    /\ UNCHANGED <<orbitVars, chanVars, harnVars, bbuVars, webVars, running, tm_i, seq,
                   tickGen, tickSent, tickSeqs, lastSend, lastGen, genTotal, tcVars,
                   upVars>>

\* lines 66-86: a tick starts: read the geometry, skip or size the burst
TmTop ==
    /\ tm_pc = "top"
    /\ running
    /\ genTotal < MaxGen
    /\ LET st == get_state(now)
       IN  /\ tm_st' = st
           /\ IF ~st.visible \/ st.rate_dl_mbps <= 0
              THEN tm_pc' = "sleep" /\ tm_max' = 0
              ELSE IF MaxPkts(st) <= 0
                   THEN tm_pc' = "sleep" /\ tm_max' = 0
                   ELSE tm_pc' = "loop" /\ tm_max' = MaxPkts(st)
    /\ UNCHANGED <<orbitVars, chanVars, harnVars, bbuVars, webVars, running, tm_i, seq,
                   tickGen, tickSent, tickSeqs, lastSend, lastGen, genTotal, tcVars,
                   upVars>>

\* lines 88-101: the next iteration builds a packet and calls propagate;
\* line 109: after the last one the burst is over
TmLoop ==
    /\ tm_pc = "loop"
    /\ IF tm_i < tm_max
       THEN /\ prop' = Call("tm", TmPacket(tm_st), tm_st.elev_deg, "downlink")
            /\ tickGen' = tickGen + 1
            /\ lastGen' = seq
            /\ genTotal' = genTotal + 1
            /\ tm_pc' = "call"
       ELSE /\ tm_pc' = "sleep"
            /\ UNCHANGED <<prop, tickGen, lastGen, genTotal>>
    /\ UNCHANGED <<orbitVars, chan, in_fade, fade_remaining, fadeDrops, harnVars, bbuVars, webVars,
                   running, tm_st, tm_max, tm_i, seq, tickSent, tickSeqs, lastSend, tcVars,
                   upVars>>

TmStep ==
    /\ tm_pc = "call"
    /\ Propagate("tm")
    /\ UNCHANGED <<orbitVars, harnVars, bbuVars, webVars, satVars,
                   upVars>>

TmRet_onsend ==
    /\ tm_pc = "call"
    /\ prop["tm"].pc = "ret"
    /\ IF prop["tm"].out = None
       THEN UNCHANGED <<tickSent, seq, tickSeqs, lastSend>>
       ELSE /\ tickSent' = tickSent + 1
            /\ seq' = SeqInc(seq)
            /\ tickSeqs' = Append(tickSeqs, prop["tm"].out.pkt.seq)
            /\ lastSend' = [sent |-> TRUE, snap |-> tm_st.visible,
                            at |-> get_state(now).visible]
    /\ tm_i' = tm_i + 1
    /\ prop' = Return("tm")
    /\ tm_pc' = "loop"
    /\ UNCHANGED <<orbitVars, chan, in_fade, fade_remaining, fadeDrops, harnVars, bbuVars, webVars,
                   running, tm_st, tm_max, tickGen, lastGen, genTotal, tcVars,
                   upVars>>

\* lines 102-107: send the survivor to the BBU, advance seq
TmRet ==
    /\ tm_pc = "call"
    /\ prop["tm"].pc = "ret"
    /\ IF prop["tm"].out = None
       THEN UNCHANGED <<tickSent, tickSeqs, lastSend>>
       ELSE /\ tickSent' = tickSent + 1
            /\ tickSeqs' = Append(tickSeqs, prop["tm"].out.pkt.seq)
            /\ lastSend' = [sent |-> TRUE, snap |-> tm_st.visible,
                            at |-> get_state(now).visible]
    /\ seq' = SeqInc(seq)
    /\ tm_i' = tm_i + 1
    /\ prop' = Return("tm")
    /\ tm_pc' = "loop"
    /\ UNCHANGED <<orbitVars, chan, in_fade, fade_remaining, fadeDrops, harnVars, bbuVars, webVars,
                   running, tm_st, tm_max, tickGen, lastGen, genTotal, tcVars,
                   upVars>>

\* lines 76, 83, 110: time.sleep(TIME_STEP_S); the tick is over
TmSleep ==
    /\ tm_pc = "sleep"
    /\ tm_pc' = "top"
    /\ tm_st' = NoState
    /\ tm_max' = 0
    /\ tm_i' = 0
    /\ tickGen' = 0
    /\ tickSent' = 0
    /\ tickSeqs' = <<>>
    /\ lastSend' = NoSend
    /\ UNCHANGED <<orbitVars, chanVars, harnVars, bbuVars, webVars, running, seq, lastGen, genTotal,
                   tcVars,
                   upVars>>

\* bytes.decode("utf-8", errors="replace") on datagrams made of ASCII bytes,
\* the byte 0xFF (valid nowhere in UTF-8) and the encoding EF BF BD of
\* U+FFFD: an ASCII byte is its character, EF BF BD is U+FFFD, and any other
\* byte is replaced by U+FFFD.
RECURSIVE Decode(_)
Decode(data) ==
    IF data = <<>> THEN <<>>
    ELSE IF data[1] < 128 THEN <<data[1]>> \o Decode(Tail(data))
    ELSE IF Len(data) >= 3 /\ data[1] = 239 /\ data[2] = 191 /\ data[3] = 189
         THEN <<65533>> \o Decode(SubSeq(data, 4, Len(data)))
    ELSE <<65533>> \o Decode(Tail(data))

\* str.encode("utf-8") on strings of ASCII characters and U+FFFD
RECURSIVE Encode(_)
Encode(str) ==
    IF str = <<>> THEN <<>>
    ELSE (IF str[1] < 128 THEN <<str[1]>> ELSE <<239, 191, 189>>) \o Encode(Tail(str))

IsSpace(c) == c \in {9, 10, 13, 32}

RECURSIVE LStrip(_)
LStrip(str) ==
    IF str # <<>> /\ IsSpace(Head(str)) THEN LStrip(Tail(str)) ELSE str

RECURSIVE RStrip(_)
RStrip(str) ==
    IF str # <<>> /\ IsSpace(str[Len(str)])
    THEN RStrip(SubSeq(str, 1, Len(str) - 1))
    ELSE str

\* str.strip()
Strip(str) == RStrip(LStrip(str))

\* Datagrams the ground sends to the TC port, each once: " B", an invalid
\* byte, "\n".
TcDatagrams == { <<32, 66, 255, 10>> }

\* A datagram arrives at SAT_TC_PORT.
TcArrive ==
    /\ \E data \in tc_todo :
         /\ tc_net' = Append(tc_net, data)
         /\ tc_todo' = tc_todo \ {data}
    /\ UNCHANGED <<orbitVars, chanVars, harnVars, bbuVars, webVars, running, tmVars,
                   sat_q, rx_pc, ex_pc, ex_st, ex_cmd, ex_last, satEnq, exLog,
                   upVars>>

\* lines 120-124: recvfrom (blocking, no timeout), decode, strip, _enqueue_tc
\* (under _tc_lock); then the test of `while running`
RxRecv ==
    /\ rx_pc = "top"
    /\ tc_net # <<>>
    /\ rx_pc' = IF running THEN "top" ELSE "done"
    /\ sat_q' = Append(sat_q, Strip(Decode(Head(tc_net))))
    /\ satEnq' = Append(satEnq, Strip(Decode(Head(tc_net))))
    /\ tc_net' = Tail(tc_net)
    /\ UNCHANGED <<orbitVars, chanVars, harnVars, bbuVars, webVars, running, tmVars,
                   tc_todo, ex_pc, ex_st, ex_cmd, ex_last, exLog,
                   upVars>>

ExTop_nogate ==
    /\ ex_pc = "top"
    /\ running
    /\ ex_st' = get_state(now) /\ ex_pc' = "deq"
    /\ ex_last' = "none"
    /\ UNCHANGED <<orbitVars, chanVars, harnVars, bbuVars, webVars, running, tmVars,
                   tc_todo, tc_net, sat_q, rx_pc, ex_cmd, satEnq, exLog,
                   upVars>>

\* lines 130-134: read the geometry; not visible: sleep and retry
ExTop ==
    /\ ex_pc = "top"
    /\ running
    /\ IF ~get_state(now).visible
       THEN UNCHANGED <<ex_pc, ex_st>>
       ELSE ex_st' = get_state(now) /\ ex_pc' = "deq"
    /\ ex_last' = "none"
    /\ UNCHANGED <<orbitVars, chanVars, harnVars, bbuVars, webVars, running, tmVars,
                   tc_todo, tc_net, sat_q, rx_pc, ex_cmd, satEnq, exLog,
                   upVars>>

\* lines 136-143: _dequeue_tc (under _tc_lock); empty: sleep and retry;
\* otherwise build the TC packet and call propagate
ExDeq ==
    /\ ex_pc = "deq"
    /\ IF sat_q = <<>>
       THEN /\ ex_pc' = "top"
            /\ ex_st' = NoState
            /\ UNCHANGED <<sat_q, ex_cmd, prop, exLog>>
       ELSE /\ ex_cmd' = Head(sat_q)
            /\ exLog' = Append(exLog, [cmd |-> Head(sat_q), vis |-> ex_st.visible,
                                       out |-> NoRet, res |-> "pending"])
            /\ sat_q' = Tail(sat_q)
            /\ prop' = Call("ex",
                            [type |-> "TC", cmd |-> Head(sat_q), ts |-> now,
                             corrupted |-> FALSE],
                            ex_st.elev_deg, "uplink")
            /\ ex_pc' = "call"
            /\ ex_st' = NoState
    /\ UNCHANGED <<orbitVars, chan, in_fade, fade_remaining, fadeDrops, harnVars, bbuVars, webVars,
                   running, tmVars, tc_todo, tc_net, rx_pc, ex_last, satEnq,
                   upVars>>

ExStep ==
    /\ ex_pc = "call"
    /\ Propagate("ex")
    /\ UNCHANGED <<orbitVars, harnVars, bbuVars, webVars, satVars,
                   upVars>>

Outcome_nocheck(pkt2) ==
    IF pkt2 = None THEN "lost" ELSE "executed"

\* lines 144-152: what the executor does with what propagate returned
Outcome(pkt2) ==
    IF pkt2 = None THEN "lost"
    ELSE IF Get(pkt2.pkt, "corrupted", FALSE) THEN "ignored"
    ELSE "executed"

\* lines 144-152: lost, corrupted (ignored) or executed
ExRet ==
    /\ ex_pc = "call"
    /\ prop["ex"].pc = "ret"
    /\ ex_last' = Outcome(prop["ex"].out)
    /\ exLog' = [exLog EXCEPT ![Len(exLog)].out = prop["ex"].out,
                              ![Len(exLog)].res = ex_last']
    /\ prop' = Return("ex")
    /\ ex_pc' = "top"
    /\ ex_cmd' = NoCmd
    /\ UNCHANGED <<orbitVars, chan, in_fade, fade_remaining, fadeDrops, harnVars, bbuVars, webVars,
                   running, tmVars, tc_todo, tc_net, sat_q, rx_pc, ex_st, satEnq,
                   upVars>>

\* Sample times of the spacecraft run, in order.
SatTimes == <<0, 1350, 2700, 4050, 6750>>

\* The wall clock moves to the next sample time.
ClockTick ==
    /\ \E i \in 1..(Len(SatTimes) - 1) :
         /\ now = SatTimes[i]
         /\ now' = SatTimes[i + 1]
    /\ UNCHANGED <<cfg, sf_ready, orb_st, tle_ok, sf_ts, sf_sat, orb_err, chanVars, harnVars, bbuVars, webVars, satVars,
                   upVars>>

\* The wall clock starts over at the first sample time (the next pass).
ClockWrap ==
    /\ now = SatTimes[Len(SatTimes)]
    /\ now' = SatTimes[1]
    /\ UNCHANGED <<cfg, sf_ready, orb_st, tle_ok, sf_ts, sf_sat, orb_err, chanVars, harnVars, satVars, bbuVars, webVars,
                   upVars>>

\* A horizon mask and a maximum rate under which the sampled pass gives a
\* tick at the mask (not visible), a visible tick whose budget is under one
\* packet, a budget of one packet, a budget above the cap, and a visible
\* tick at the horizon whose rate is 0.
SatCfgs == { OrbitConfig(-5000, 12000, DEFAULT_UL_MAX_RATE_Mbps, DEFAULT_RATE_ALPHA) }

\* seq at the start of the run: a fresh thread, or two packets before the wrap.
SatSeqs == { <<0, 0>>, <<65535, 65534>> }

InitSat ==
    /\ OrbitInit(SatCfgs, {TRUE}, {TRUE})
    /\ ChanInit({DefaultChan})
    /\ HarnInit
    /\ SatInit(SatSeqs, TcDatagrams)
    /\ BbuInit
    /\ WebInit
    /\ UpInit({})

NextSat ==
    \/ ClockTick
    \/ TmTop \/ TmLoop \/ TmStep \/ TmRet \/ TmSleep
    \/ TcArrive \/ RxRecv
    \/ ExTop \/ ExDeq \/ ExStep \/ ExRet

SpecSat == InitSat /\ [][NextSat]_vars

(***************************************************************************)
(* telemetry_sender alone, over passes that begin and end: the clock moves *)
(* on while a burst is under way (propagate sleeps 0.25 s per packet).     *)
(***************************************************************************)
\* seq at the start of the run: a fresh thread, or one packet before the wrap.
TmSeqs == { <<0, 0>>, <<65535, 65535>> }

InitTm ==
    /\ OrbitInit({DefaultOrbitConfig}, {TRUE}, {TRUE})
    /\ ChanInit({DefaultChan})
    /\ HarnInit
    /\ SatInit(TmSeqs, {})
    /\ BbuInit
    /\ WebInit
    /\ UpInit({})

NextTm ==
    \/ ClockTick \/ ClockWrap
    \/ TmTop \/ TmLoop \/ TmStep \/ TmRet \/ TmSleep

SpecTm == InitTm /\ [][NextTm]_vars

(***************************************************************************)
(* The telecommand path: Web -> BBU (TCP) -> channel -> spacecraft (UDP).  *)
(* The BBU process imports rf_channel_leo on its own, so its fade state is *)
(* not the spacecraft's; tc_sender is its only caller of propagate, which  *)
(* therefore runs there call after call.                                   *)
(***************************************************************************)
\* rf_channel_leo.py lines 67-111 run by a single caller: the fade state
\* after the call and what the call returns.
propagate(fade, remaining, packet, elev_deg, direction, r) ==
    LET q == link_quality_from_elev(elev_deg)
    IN  IF fade
        THEN [in_fade |-> ~(remaining - 1 <= 0), fade_remaining |-> remaining - 1,
              out |-> None]
        ELSE IF Draw(r.fade, FadeStartProb(q))
        THEN [in_fade |-> TRUE, fade_remaining |-> BURST_FADE_LENGTH_PKTS,
              out |-> None]
        ELSE [in_fade |-> fade, fade_remaining |-> remaining,
              out |-> IF Draw(r.loss, LossProb(q, direction))
                      THEN None
                      ELSE Some(Survivor(packet, Draw(r.ber, BerProb(q, direction)),
                                         Draw(r.dup, DupProb(q))))]

\* What the Web sends on its TC connections, each once: "A", " B" followed by
\* an invalid byte, and a blank.
WebTcs == { <<65>>, <<32, 66, 255>>, <<32>> }

\* bbu_leo.py lines 111-122: accept (blocking, no timeout), recv, decode,
\* strip; a command that is not empty is appended to telecommand_queue; then
\* the test of `while running`
TcWebRecv ==
    /\ tcw_pc = "accept"
    /\ tcw_pc' = IF b_running THEN "accept" ELSE "done"
    /\ \E data \in web_todo :
         LET tc == Strip(Decode(data))
         IN  /\ web_todo' = web_todo \ {data}
             /\ IF tc # <<>>
                THEN /\ telecommand_queue' = Append(telecommand_queue, tc)
                     /\ bbuEnq' = Append(bbuEnq, tc)
                ELSE UNCHANGED <<telecommand_queue, bbuEnq>>
    /\ UNCHANGED <<orbitVars, chanVars, harnVars, satVars, bbuVars, webVars,
                   tx_pc, tx_st, tx_tc, tx_out, b_in_fade, b_fade_remaining,
                   txLog, txSent, b_running, exited>>

TxTop_nogate ==
    /\ tx_pc = "top"
    /\ b_running
    /\ IF telecommand_queue = <<>>
       THEN UNCHANGED <<tx_pc, tx_st>>
       ELSE tx_st' = get_state(now) /\ tx_pc' = "pop"
    /\ UNCHANGED <<orbitVars, chanVars, harnVars, satVars, bbuVars, webVars,
                   web_todo, telecommand_queue, tx_tc, tx_out, b_in_fade,
                   b_fade_remaining, bbuEnq, txLog, txSent, b_running, tcw_pc, exited>>

\* bbu_leo.py lines 128-137: nothing queued: sleep and retry; read the
\* geometry; not visible: sleep and retry
TxTop ==
    /\ tx_pc = "top"
    /\ b_running
    /\ IF telecommand_queue = <<>> \/ ~get_state(now).visible
       THEN UNCHANGED <<tx_pc, tx_st>>
       ELSE tx_st' = get_state(now) /\ tx_pc' = "pop"
    /\ UNCHANGED <<orbitVars, chanVars, harnVars, satVars, bbuVars, webVars,
                   web_todo, telecommand_queue, tx_tc, tx_out, b_in_fade,
                   b_fade_remaining, bbuEnq, txLog, txSent, b_running, tcw_pc, exited>>

Pop0_last(list) ==
    [item |-> list[Len(list)], rest |-> SubSeq(list, 1, Len(list) - 1)]

\* list.pop(0): the item removed and the list left
Pop0(list) == [item |-> list[1], rest |-> Tail(list)]

\* bbu_leo.py lines 139-143: pop(0), build the TC packet, propagate
TxPop ==
    /\ tx_pc = "pop"
    /\ telecommand_queue # <<>>
    /\ \E r_fade \in RandomDraws, r_loss \in RandomDraws,
          r_ber \in RandomDraws, r_dup \in RandomDraws :
         LET tc  == Pop0(telecommand_queue).item
             pkt == [type |-> "TC", cmd |-> tc, ts |-> now, corrupted |-> FALSE]
             res == propagate(b_in_fade, b_fade_remaining, pkt, tx_st.elev_deg,
                              "uplink",
                              [fade |-> r_fade, loss |-> r_loss, ber |-> r_ber,
                               dup |-> r_dup])
         IN  /\ telecommand_queue' = Pop0(telecommand_queue).rest
             /\ tx_tc' = tc
             /\ tx_out' = res.out
             /\ b_in_fade' = res.in_fade
             /\ b_fade_remaining' = res.fade_remaining
             /\ txLog' = Append(txLog, [cmd |-> tc, vis |-> tx_st.visible,
                                       out |-> res.out, sent |-> <<>>])
    /\ tx_pc' = "send"
    /\ UNCHANGED <<orbitVars, chanVars, harnVars, satVars, bbuVars, webVars,
                   web_todo, tx_st, bbuEnq, txSent, b_running, tcw_pc, exited>>

Skipped_never(pkt2) == FALSE

Skipped_corrupted(pkt2) == pkt2 = None \/ Get(pkt2.pkt, "corrupted", FALSE)

\* bbu_leo.py lines 144-146: if pkt2 is None: ... continue
Skipped(pkt2) == pkt2 = None

\* bbu_leo.py lines 144-152: DROPPED: log and go on; otherwise (corrupted or
\* not) sendto(tc.encode("utf-8")), sleep
TxSend ==
    /\ tx_pc = "send"
    /\ IF Skipped(tx_out)
       THEN UNCHANGED <<tc_net, txLog, txSent>>
       ELSE /\ tc_net' = Append(tc_net, Encode(tx_tc))
            /\ txSent' = Append(txSent, Encode(tx_tc))
            /\ txLog' = [txLog EXCEPT ![Len(txLog)].sent = Append(@, Encode(tx_tc))]
    /\ tx_pc' = "top"
    /\ tx_st' = NoState
    /\ tx_tc' = NoCmd
    /\ tx_out' = NoRet
    /\ UNCHANGED <<orbitVars, chanVars, harnVars, bbuVars, webVars, running, tmVars,
                   tc_todo, sat_q, rx_pc, ex_pc, ex_st, ex_cmd, ex_last, satEnq, exLog,
                   web_todo, telecommand_queue, b_in_fade, b_fade_remaining, bbuEnq,
                   b_running, tcw_pc, exited>>

(***************************************************************************)
(* bbu_leo.py: the BBU process.  The buffers are plain lists shared by the *)
(* threads without a lock, so every statement that touches one is a step.  *)
(* A frame is the decoded datagram; the model tags it with its arrival     *)
(* number (ghost) to tell equal frames apart.                              *)
(***************************************************************************)
\* 5000 and 2000 in the source (lines 50-51, 55-56); scaled down.
HIST_CAP == 2
LIVE_CAP == 1

\* TM datagrams that may arrive in one run of the model.
MaxTmRx == 3

\* Datagrams that reach the TM port: "1" followed by an invalid byte.
TmDatagrams == { <<49, 255>> }

\* list[-n:]
LastN(list, n) ==
    IF Len(list) <= n THEN list ELSE SubSeq(list, Len(list) - n + 1, Len(list))

\* Ghost: the arrival numbers of the frames of a list.
Ids(list) == { list[i].id : i \in DOMAIN list }

\* A datagram arrives at BBU_TM_PORT.
TmArrive ==
    /\ tmRx + Len(tm_net) < MaxTmRx
    /\ \E data \in TmDatagrams : tm_net' = Append(tm_net, data)
    /\ UNCHANGED <<orbitVars, chanVars, harnVars, satVars, webVars, tmRx, brx_pc, brx_raw,
                   brx_tmp, telemetry_history, telemetry_live, everHist, everLive,
                   rxVisible, rxDone,
                   upVars>>

\* lines 45-47: recvfrom; raw = data.decode("utf-8", errors="replace")
BRecv ==
    /\ brx_pc = "recv"
    /\ tm_net # <<>>
    /\ brx_raw' = [id |-> tmRx + 1, raw |-> Decode(Head(tm_net))]
    /\ tmRx' = tmRx + 1
    /\ tm_net' = Tail(tm_net)
    /\ brx_pc' = "hist_append"
    /\ UNCHANGED <<orbitVars, chanVars, harnVars, satVars, webVars, brx_tmp,
                   telemetry_history, telemetry_live, everHist, everLive,
                   rxVisible, rxDone,
                   upVars>>

\* line 49: telemetry_history.append(raw)
BHistAppend ==
    /\ brx_pc = "hist_append"
    /\ telemetry_history' = Append(telemetry_history, brx_raw)
    /\ everHist' = everHist \cup {brx_raw.id}
    /\ brx_pc' = "hist_trunc"
    /\ prevHist' = NoPrev
    /\ UNCHANGED <<orbitVars, chanVars, harnVars, satVars, tm_net, tmRx, brx_raw,
                   brx_tmp, telemetry_live, everLive, rxVisible, rxDone,
                   web_up, d_pc, d_tm, d_tag, livePopped, liveSent, truncRemoved, d_conn, s_obs,
                   upVars>>

\* lines 50-51: truncate to the newest HIST_CAP (only this thread writes the list)
BHistTrunc ==
    /\ brx_pc = "hist_trunc"
    /\ telemetry_history' =
         IF Len(telemetry_history) > HIST_CAP
         THEN LastN(telemetry_history, HIST_CAP)
         ELSE telemetry_history
    /\ brx_pc' = "vis"
    /\ UNCHANGED <<orbitVars, chanVars, harnVars, satVars, webVars, tm_net, tmRx, brx_raw,
                   brx_tmp, telemetry_live, everHist, everLive, rxVisible, rxDone,
                   upVars>>

BVis_always ==
    /\ brx_pc = "vis"
    /\ brx_pc' = "live_append"
    /\ rxVisible' = rxVisible \cup {brx_raw.id}
    /\ UNCHANGED <<rxDone, brx_raw>>
    /\ UNCHANGED <<orbitVars, chanVars, harnVars, satVars, webVars, tm_net, tmRx, brx_tmp,
                   telemetry_history, telemetry_live, everHist, everLive,
                   upVars>>

BVis_inverted ==
    /\ brx_pc = "vis"
    /\ IF ~get_state(now).visible
       THEN /\ brx_pc' = "live_append"
            /\ UNCHANGED <<rxVisible, rxDone, brx_raw>>
       ELSE /\ brx_pc' = "recv"
            /\ rxVisible' = rxVisible \cup {brx_raw.id}
            /\ rxDone' = rxDone \cup {brx_raw.id}
            /\ brx_raw' = NoFrame
    /\ UNCHANGED <<orbitVars, chanVars, harnVars, satVars, webVars, tm_net, tmRx, brx_tmp,
                   telemetry_history, telemetry_live, everHist, everLive,
                   upVars>>

\* line 53: if DEFAULT_ORBIT.is_visible(); lines 58-59 otherwise
BVis ==
    /\ brx_pc = "vis"
    /\ IF get_state(now).visible
       THEN /\ brx_pc' = "live_append"
            /\ rxVisible' = rxVisible \cup {brx_raw.id}
            /\ UNCHANGED <<rxDone, brx_raw>>
       ELSE /\ brx_pc' = "recv"
            /\ rxDone' = rxDone \cup {brx_raw.id}
            /\ brx_raw' = NoFrame
            /\ UNCHANGED rxVisible
    /\ UNCHANGED <<orbitVars, chanVars, harnVars, satVars, webVars, tm_net, tmRx, brx_tmp,
                   telemetry_history, telemetry_live, everHist, everLive,
                   upVars>>

\* line 54: telemetry_live.append(raw)
BLiveAppend ==
    /\ brx_pc = "live_append"
    /\ telemetry_live' = Append(telemetry_live, brx_raw)
    /\ everLive' = everLive \cup {brx_raw.id}
    /\ brx_pc' = "live_chk"
    /\ UNCHANGED <<orbitVars, chanVars, harnVars, satVars, webVars, tm_net, tmRx, brx_raw,
                   brx_tmp, telemetry_history, everHist, rxVisible, rxDone,
                   upVars>>

\* line 55: if len(telemetry_live) > 2000; lines 56 (right-hand side): the slice
BLiveChk ==
    /\ brx_pc = "live_chk"
    /\ IF Len(telemetry_live) > LIVE_CAP
       THEN /\ brx_tmp' = LastN(telemetry_live, LIVE_CAP)
            /\ brx_pc' = "live_store"
            /\ UNCHANGED <<rxDone, brx_raw>>
       ELSE /\ brx_pc' = "recv"
            /\ rxDone' = rxDone \cup {brx_raw.id}
            /\ brx_raw' = NoFrame
            /\ UNCHANGED brx_tmp
    /\ UNCHANGED <<orbitVars, chanVars, harnVars, satVars, webVars, tm_net, tmRx,
                   telemetry_history, telemetry_live, everHist, everLive, rxVisible,
                   upVars>>

\* line 56 (assignment): telemetry_live[:] = the slice
BLiveStore ==
    /\ brx_pc = "live_store"
    /\ telemetry_live' = brx_tmp
    /\ brx_tmp' = <<>>
    /\ brx_pc' = "recv"
    /\ rxDone' = rxDone \cup {brx_raw.id}
    /\ brx_raw' = NoFrame
    /\ truncRemoved' = truncRemoved \cup (Ids(telemetry_live) \ Ids(brx_tmp))
    /\ UNCHANGED <<orbitVars, chanVars, harnVars, satVars, tm_net, tmRx,
                   telemetry_history, everHist, everLive, rxVisible,
                   web_up, d_pc, d_tm, d_tag, livePopped, liveSent, d_conn, prevHist, s_obs,
                   upVars>>

\* lines 70-76: accept() returns: a Web client has connected
DAccept ==
    /\ d_pc = "accept"
    /\ web_up' = TRUE
    /\ d_conn' = [d_conn EXCEPT !.open = @ + 1]
    /\ d_pc' = "select"
    /\ UNCHANGED <<orbitVars, chanVars, harnVars, satVars, bbuVars, d_tm, d_tag,
                   livePopped, liveSent, truncRemoved, prevHist, s_obs,
                   upVars>>

\* The Web client closes its end of the TM connection.
WebDrop ==
    /\ web_up
    /\ web_up' = FALSE
    /\ UNCHANGED <<orbitVars, chanVars, harnVars, satVars, bbuVars, d_pc, d_tm, d_tag,
                   livePopped, liveSent, truncRemoved, d_conn, prevHist, s_obs,
                   upVars>>

DSelect_notest ==
    /\ d_pc = "select"
    /\ d_pc' = IF get_state(now).visible THEN "pop" ELSE "hist"
    /\ UNCHANGED <<orbitVars, chanVars, harnVars, satVars, bbuVars, web_up, d_tm, d_tag,
                   livePopped, liveSent, truncRemoved, d_conn, prevHist, s_obs,
                   upVars>>

\* line 79: if DEFAULT_ORBIT.is_visible() and telemetry_live
DSelect ==
    /\ d_pc = "select"
    /\ d_pc' = IF get_state(now).visible /\ telemetry_live # <<>> THEN "pop" ELSE "hist"
    /\ UNCHANGED <<orbitVars, chanVars, harnVars, satVars, bbuVars, web_up, d_tm, d_tag,
                   livePopped, liveSent, truncRemoved, d_conn, prevHist, s_obs,
                   upVars>>

\* lines 80-81: tm = telemetry_live.pop(0); IndexError on an empty list ends
\* the thread's inner loop through the finally clause
DPop ==
    /\ d_pc = "pop"
    /\ IF telemetry_live = <<>>
       THEN /\ d_pc' = "dead"
            /\ UNCHANGED <<telemetry_live, d_tm, d_tag, livePopped>>
       ELSE /\ d_tm' = Head(telemetry_live)
            /\ telemetry_live' = Tail(telemetry_live)
            /\ livePopped' = Append(livePopped, Head(telemetry_live).id)
            /\ d_tag' = "LIVE"
            /\ d_pc' = "send"
    /\ UNCHANGED <<orbitVars, chanVars, harnVars, satVars, tm_net, tmRx, brx_pc, brx_raw,
                   brx_tmp, telemetry_history, everHist, everLive, rxVisible, rxDone,
                   web_up, liveSent, truncRemoved, d_conn, prevHist, s_obs,
                   upVars>>

\* line 82: elif telemetry_history; lines 85-87 otherwise: sleep and continue
DHist ==
    /\ d_pc = "hist"
    /\ d_pc' = IF telemetry_history # <<>> THEN "hread" ELSE "select"
    /\ UNCHANGED <<orbitVars, chanVars, harnVars, satVars, bbuVars, web_up, d_tm, d_tag,
                   livePopped, liveSent, truncRemoved, d_conn, prevHist, s_obs,
                   upVars>>

DHistRead_pop ==
    /\ d_pc = "hread"
    /\ IF telemetry_history = <<>>
       THEN /\ d_pc' = "dead"
            /\ UNCHANGED <<d_tm, d_tag, prevHist, telemetry_history>>
       ELSE /\ d_tm' = telemetry_history[Len(telemetry_history)]
            /\ telemetry_history' = SubSeq(telemetry_history, 1, Len(telemetry_history) - 1)
            /\ d_tag' = "HIST"
            /\ prevHist' = [frame |-> telemetry_history[Len(telemetry_history)],
                            again |-> prevHist # NoPrev]
            /\ d_pc' = "send"
    /\ UNCHANGED <<orbitVars, chanVars, harnVars, satVars, tm_net, tmRx, brx_pc, brx_raw,
                   brx_tmp, telemetry_live, everHist, everLive, rxVisible, rxDone,
                   web_up, livePopped, liveSent, truncRemoved, d_conn, s_obs,
                   upVars>>

\* lines 83-84: tm = telemetry_history[-1]; IndexError on an empty list ends
\* the thread's inner loop through the finally clause
DHistRead ==
    /\ d_pc = "hread"
    /\ IF telemetry_history = <<>>
       THEN /\ d_pc' = "dead"
            /\ UNCHANGED <<d_tm, d_tag, prevHist>>
       ELSE /\ d_tm' = telemetry_history[Len(telemetry_history)]
            /\ d_tag' = "HIST"
            /\ prevHist' = [frame |-> telemetry_history[Len(telemetry_history)],
                            again |-> prevHist # NoPrev]
            /\ d_pc' = "send"
    /\ UNCHANGED <<orbitVars, chanVars, harnVars, satVars, bbuVars, web_up,
                   livePopped, liveSent, truncRemoved, d_conn, s_obs,
                   upVars>>

DSend_noclose ==
    /\ d_pc = "send"
    /\ IF web_up
       THEN /\ liveSent' = IF d_tag = "LIVE" THEN Append(liveSent, d_tm.id) ELSE liveSent
            /\ d_pc' = "select"
            /\ UNCHANGED d_conn
       ELSE /\ d_pc' = "accept"
            /\ d_conn' = [d_conn EXCEPT !.failed = TRUE]
            /\ UNCHANGED liveSent
    /\ d_tm' = NoFrame
    /\ d_tag' = "none"
    /\ UNCHANGED <<orbitVars, chanVars, harnVars, satVars, bbuVars, web_up,
                   livePopped, truncRemoved, prevHist, s_obs,
                   upVars>>

\* lines 89-102: conn.sendall(msg); sleep and loop, or on an exception break,
\* close the connection and return to accept()
DSend ==
    /\ d_pc = "send"
    /\ IF web_up
       THEN /\ liveSent' = IF d_tag = "LIVE" THEN Append(liveSent, d_tm.id) ELSE liveSent
            /\ d_pc' = "select"
            /\ UNCHANGED d_conn
       ELSE /\ d_pc' = "accept"
            /\ d_conn' = [open |-> d_conn.open - 1, failed |-> TRUE]
            /\ UNCHANGED liveSent
    /\ d_tm' = NoFrame
    /\ d_tag' = "none"
    /\ UNCHANGED <<orbitVars, chanVars, harnVars, satVars, bbuVars, web_up,
                   livePopped, truncRemoved, prevHist, s_obs,
                   upVars>>

\* lines 155-162: status_printer prints LIVE=len(telemetry_live) HIST=len(telemetry_history)
SPrint ==
    /\ s_obs' = [live |-> Len(telemetry_live), hist |-> Len(telemetry_history)]
    /\ UNCHANGED <<orbitVars, chanVars, harnVars, satVars, bbuVars, web_up, d_pc, d_tm,
                   d_tag, livePopped, liveSent, truncRemoved, d_conn, prevHist,
                   upVars>>

InitBbu ==
    /\ OrbitInit({DefaultOrbitConfig}, {TRUE}, {TRUE})
    /\ ChanInit({DefaultChan})
    /\ HarnInit
    /\ SatInit({<<0, 0>>}, {})
    /\ BbuInit
    /\ WebInit
    /\ UpInit({})

NextBbu ==
    \/ ClockTick \/ ClockWrap
    \/ TmArrive
    \/ BRecv \/ BHistAppend \/ BHistTrunc \/ BVis
    \/ BLiveAppend \/ BLiveChk \/ BLiveStore

SpecBbu == InitBbu /\ [][NextBbu]_vars

\* Sample times of the BBU run: the end of an outage (elevation at the mask)
\* and a time inside a pass.
WebTimes == {1350, 2700}

\* The wall clock moves between an outage and a pass.
WebClock ==
    /\ \E t \in WebTimes : t # now /\ now' = t
    /\ UNCHANGED <<cfg, sf_ready, orb_st, tle_ok, sf_ts, sf_sat, orb_err, chanVars, harnVars, satVars, bbuVars, webVars,
                   upVars>>

NextWeb ==
    \/ WebClock
    \/ TmArrive
    \/ BRecv \/ BHistAppend \/ BHistTrunc \/ BVis
    \/ BLiveAppend \/ BLiveChk \/ BLiveStore
    \/ DAccept \/ WebDrop \/ DSelect \/ DPop \/ DHist \/ DHistRead \/ DSend
    \/ SPrint

SpecWeb == InitBbu /\ [][NextWeb]_vars

(***************************************************************************)
(* The telecommand path end to end: the Web's commands, the BBU uplink     *)
(* activity, the UDP hop and the spacecraft's receiver and executor, over  *)
(* a pass that goes in and out of view.                                    *)
(***************************************************************************)
InitTc ==
    /\ OrbitInit({DefaultOrbitConfig}, {TRUE}, {TRUE})
    /\ ChanInit({DefaultChan})
    /\ HarnInit
    /\ SatInit({<<0, 0>>}, {})
    /\ BbuInit
    /\ WebInit
    /\ UpInit(WebTcs)

NextTc ==
    \/ WebClock
    \/ TcWebRecv
    \/ TxTop \/ TxPop \/ TxSend
    \/ RxRecv
    \/ ExTop \/ ExDeq \/ ExStep \/ ExRet

SpecTc == InitTc /\ [][NextTc]_vars

\* The telecommand path while both processes keep running: every thread that
\* can take a step does; tc_sender and the executor poll the geometry every
\* 0.8 s and 0.5 s, far more often than a pass begins or ends, so a poll
\* falls into every pass; and passes keep coming.
InitHold ==
    /\ OrbitInit({DefaultOrbitConfig}, {TRUE}, {TRUE})
    /\ ChanInit({DefaultChan})
    /\ HarnInit
    /\ SatInit({<<0, 0>>}, {})
    /\ BbuInit
    /\ WebInit
    /\ UpInit({<<65>>})

SpecHold ==
    /\ InitHold
    /\ [][NextTc]_vars
    /\ SF_vars(TxTop) /\ WF_vars(TxPop) /\ WF_vars(TxSend)
    /\ WF_vars(RxRecv)
    /\ SF_vars(ExTop) /\ WF_vars(ExDeq) /\ WF_vars(ExStep) /\ WF_vars(ExRet)
    /\ []<>(get_state(now).visible)

(***************************************************************************)
(* Shutdown.  The main thread of each process sets running to False on     *)
(* KeyboardInterrupt and returns; the activities are daemon threads, which *)
(* the interpreter ends, wherever they are, when the main thread is gone.  *)
(***************************************************************************)
\* satellite_leo.py lines 171-172: running = False
SatShutdown ==
    /\ running
    /\ running' = FALSE
    /\ UNCHANGED <<orbitVars, chanVars, harnVars, tmVars, tcVars, bbuVars, webVars, upVars>>

\* bbu_leo.py lines 180-181: running = False
BbuShutdown ==
    /\ b_running
    /\ b_running' = FALSE
    /\ UNCHANGED <<orbitVars, chanVars, harnVars, satVars, bbuVars, webVars,
                   web_todo, telecommand_queue, tx_pc, tx_st, tx_tc, tx_out, b_in_fade,
                   b_fade_remaining, bbuEnq, txLog, txSent, tcw_pc, exited>>

\* A thread the interpreter ends at its exit, unless it had returned.
Killed(pc) == IF pc = "done" THEN "done" ELSE "killed"

\* satellite_leo.py lines 161-173: the main thread returns after line 172;
\* the daemon threads end with the process
SatExit ==
    /\ ~running
    /\ "sat" \notin exited
    /\ exited' = exited \cup {"sat"}
    /\ tm_pc' = Killed(tm_pc)
    /\ rx_pc' = Killed(rx_pc)
    /\ ex_pc' = Killed(ex_pc)
    /\ UNCHANGED <<orbitVars, chanVars, harnVars, bbuVars, webVars, running,
                   tm_st, tm_max, tm_i, seq, tickGen, tickSent, tickSeqs, lastSend,
                   lastGen, genTotal,
                   tc_todo, tc_net, sat_q, ex_st, ex_cmd, ex_last, satEnq, exLog,
                   web_todo, telecommand_queue, tx_pc, tx_st, tx_tc, tx_out, b_in_fade,
                   b_fade_remaining, bbuEnq, txLog, txSent, b_running, tcw_pc>>

\* bbu_leo.py lines 167-181: the main thread returns after line 181; the
\* daemon threads end with the process
BbuExit ==
    /\ ~b_running
    /\ "bbu" \notin exited
    /\ exited' = exited \cup {"bbu"}
    /\ brx_pc' = Killed(brx_pc)
    /\ d_pc' = Killed(d_pc)
    /\ tcw_pc' = Killed(tcw_pc)
    /\ tx_pc' = Killed(tx_pc)
    /\ UNCHANGED <<orbitVars, chanVars, harnVars, satVars,
                   tm_net, tmRx, brx_raw, brx_tmp, telemetry_history, telemetry_live,
                   everHist, everLive, rxVisible, rxDone,
                   web_up, d_tm, d_tag, livePopped, liveSent, truncRemoved, d_conn, prevHist, s_obs,
                   web_todo, telecommand_queue, tx_st, tx_tc, tx_out, b_in_fade,
                   b_fade_remaining, bbuEnq, txLog, txSent, b_running>>

\* satellite_leo.py lines 65, 130: `while running` is false at the head of
\* the loop of telemetry_sender or telecommand_executor; the thread returns
SatLoopExit ==
    /\ ~running
    /\ \/ tm_pc = "top" /\ tm_pc' = "done" /\ UNCHANGED ex_pc
       \/ ex_pc = "top" /\ ex_pc' = "done" /\ UNCHANGED tm_pc
    /\ UNCHANGED <<orbitVars, chanVars, harnVars, bbuVars, webVars, running,
                   tm_st, tm_max, tm_i, seq, tickGen, tickSent, tickSeqs, lastSend,
                   lastGen, genTotal,
                   tc_todo, tc_net, sat_q, rx_pc, ex_st, ex_cmd, ex_last, satEnq, exLog,
                   upVars>>

\* bbu_leo.py line 128: `while running` is false at the head of the loop of
\* tc_sender; the thread returns
BbuLoopExit ==
    /\ ~b_running
    /\ tx_pc = "top"
    /\ tx_pc' = "done"
    /\ UNCHANGED <<orbitVars, chanVars, harnVars, satVars, bbuVars, webVars,
                   web_todo, telecommand_queue, tx_st, tx_tc, tx_out, b_in_fade,
                   b_fade_remaining, bbuEnq, txLog, txSent, b_running, tcw_pc, exited>>

InitStop ==
    /\ OrbitInit({DefaultOrbitConfig}, {TRUE}, {TRUE})
    /\ ChanInit({DefaultChan})
    /\ HarnInit
    /\ SatInit({<<0, 0>>}, {})
    /\ BbuInit
    /\ WebInit
    /\ UpInit({<<65>>})

NextStop ==
    \/ WebClock
    \/ TcWebRecv
    \/ TxTop \/ TxPop \/ TxSend
    \/ RxRecv
    \/ ExTop \/ ExDeq \/ ExStep \/ ExRet
    \/ SatShutdown \/ BbuShutdown
    \/ SatLoopExit \/ BbuLoopExit
    \/ SatExit \/ BbuExit

\* Every thread that can run does run, and a main thread that has set the
\* flag returns; the clock, the Web and the operator's interrupt are under
\* no obligation.
SpecStop ==
    /\ InitStop
    /\ [][NextStop]_vars
    /\ WF_vars(TxTop) /\ WF_vars(TxPop) /\ WF_vars(TxSend)
    /\ WF_vars(RxRecv)
    /\ WF_vars(ExTop) /\ WF_vars(ExDeq) /\ WF_vars(ExStep) /\ WF_vars(ExRet)
    /\ WF_vars(SatLoopExit) /\ WF_vars(BbuLoopExit)
    /\ WF_vars(SatExit) /\ WF_vars(BbuExit)

(***************************************************************************)
(* Claims about the orbit model (SpecOrbit).                               *)
(***************************************************************************)
\* C5: for every time t, get_state(t) has visible = true if and only if
\* elev_deg > elev_mask_deg; an elevation equal to the mask is not visible.
C5_VisibleIffAboveMask ==
    orb_st # NoState =>
        (orb_st.visible <=> orb_st.elev_deg > cfg.elev_mask_deg)

\* get_state answered for an elevation exactly at the mask: not visible.
C5_Witness ==
    /\ orb_st # NoState
    /\ orb_st.elev_deg = cfg.elev_mask_deg
    /\ ~orb_st.visible

\* C6 as stated: for every time and every OrbitConfig, rate_dl_mbps = 0 iff not
\* visible, and rate_ul_mbps = 0 iff not visible.
C6_RateZeroIffNotVisible ==
    orb_st # NoState =>
        /\ (orb_st.rate_dl_mbps = 0 <=> ~orb_st.visible)
        /\ (orb_st.rate_ul_mbps = 0 <=> ~orb_st.visible)

\* A visible state has rate 0 exactly when the maximum rate is 0 or the
\* clamped sine is 0 (elevation at or below the horizon) under a positive exponent.
VisibleRateIsZero(max_rate_mbps) ==
    \/ max_rate_mbps = 0
    \/ orb_st.elev_deg <= 0 /\ cfg.rate_alpha > 0

\* C6 amended: not visible implies both rates are 0; a visible state has rate 0
\* iff the configured maximum rate is 0 or (elev_deg <= 0 and rate_alpha > 0).
C6_RateZeroWhenNotVisible ==
    orb_st # NoState =>
        /\ ~orb_st.visible => orb_st.rate_dl_mbps = 0 /\ orb_st.rate_ul_mbps = 0
        /\ orb_st.visible =>
             /\ orb_st.rate_dl_mbps = 0 <=> VisibleRateIsZero(cfg.dl_max_rate_mbps)
             /\ orb_st.rate_ul_mbps = 0 <=> VisibleRateIsZero(cfg.ul_max_rate_mbps)

\* A visible state with positive maximum rates and both rates 0 (mask below the
\* horizon, elevation between the mask and the horizon).
C6_Witness ==
    /\ orb_st # NoState
    /\ orb_st.visible
    /\ cfg.dl_max_rate_mbps > 0 /\ cfg.ul_max_rate_mbps > 0
    /\ orb_st.rate_dl_mbps = 0 /\ orb_st.rate_ul_mbps = 0

(***************************************************************************)
(* Claims about propagate called sequentially (SpecChan).                  *)
(***************************************************************************)
\* C1: between the calls of any sequence of propagate calls, fade_remaining is
\* a non-negative integer and in_fade holds if and only if fade_remaining > 0.
C1_FadeInvariant ==
    prop["h"].pc \in {"idle", "ret"} =>
        /\ fade_remaining \in Nat
        /\ in_fade <=> fade_remaining > 0

\* A call returned DROPPED inside a fade whose last packet is still to come.
C1_Witness ==
    /\ h_pc = "idle"
    /\ h_out = None
    /\ in_fade
    /\ fade_remaining = 1
    /\ fadeDrops = BURST_FADE_LENGTH_PKTS

\* C2 as stated: a single fade accounts for exactly FADE_LEN DROPPED results,
\* the igniting call included, and after them the channel is Clear at the
\* entry of the next call.
C2_FadeLenDrops ==
    /\ fadeDrops <= BURST_FADE_LENGTH_PKTS
    /\ (h_pc = "idle" /\ fadeDrops = BURST_FADE_LENGTH_PKTS) => ~in_fade

AllZero == chan = ChanParams(0, 0, 0, 0)

\* C4 as stated: with all four probabilities 0 and the channel Clear, propagate
\* never returns DROPPED and returns a packet equal to its input.
C4_Identity ==
    (AllZero /\ h_pc = "idle" /\ h_out # NoRet) =>
        /\ h_out # None
        /\ h_out.pkt = h_in

\* The input with corrupted defaulted to False and duplicated set to False.
Normalised(packet) ==
    [f \in DOMAIN packet \cup {"corrupted", "duplicated"} |->
        IF f = "duplicated" THEN FALSE
        ELSE IF f = "corrupted"
             THEN IF "corrupted" \in DOMAIN packet THEN packet.corrupted ELSE FALSE
             ELSE packet[f]]

\* C4 amended: with all four probabilities 0 and the channel Clear, propagate
\* never returns DROPPED; the returned packet keeps every input field except
\* that it always has corrupted (the input's value, False when absent) and
\* duplicated = False.
C4_IdentityModuloFlags ==
    (AllZero /\ h_pc = "idle" /\ h_out # NoRet) =>
        /\ h_out # None
        /\ h_out.pkt = Normalised(h_in)

\* A lossless call whose input already carried corrupted and duplicated = False
\* came back unchanged.
C4_Witness ==
    /\ AllZero
    /\ h_pc = "idle"
    /\ h_out = Some(h_in)
    /\ "rf_note" \in DOMAIN h_in

(***************************************************************************)
(* Claims about the spacecraft process (SpecSat).                          *)
(***************************************************************************)
\* C3 as stated: the fade-state transitions of two propagate calls never
\* interleave: while the TM producer's call is between its first read and its
\* last write of (in_fade, fade_remaining), the TC executor's call is not.
C3_NoInterleaving ==
    ~(InTransition("tm") /\ InTransition("ex"))

\* C7: during a tick of the TM producer whose snapshot is not visible or has
\* rate_dl <= 0, no packet is passed to the channel and no TM datagram is sent.
C7_GatedTickIsSilent ==
    (tm_st # NoState /\ (~tm_st.visible \/ tm_st.rate_dl_mbps <= 0)) =>
        /\ tickGen = 0
        /\ tickSent = 0
        /\ prop["tm"].pc = "idle"

\* A tick skipped on a visible snapshot whose rate is 0, after earlier bursts.
C7_Witness ==
    /\ tm_pc = "sleep"
    /\ tm_st # NoState
    /\ tm_st.visible
    /\ tm_st.rate_dl_mbps = 0
    /\ genTotal > 0

\* min(floor(rate_dl * dt / bits_per_packet), MAX_PKTS_PER_STEP) for the
\* snapshot of the tick, with bits_per_packet = 8 * (payload_len + header_len).
BurstBudget ==
    Min((tm_st.rate_dl_mbps * TIME_STEP_S) \div (8 * (PAYLOAD_BYTES + HEADER_BYTES)),
        MAX_PKTS_PER_STEP)

\* C8: in a tick whose snapshot is visible with rate_dl > 0 the producer
\* generates exactly N = min(floor(rate_dl * dt / bits_per_packet),
\* MAX_PKTS_PER_STEP) packets (none when the budget is under one packet), and
\* the datagrams sent in the tick never exceed N.
C8_BurstOfN ==
    (tm_st # NoState /\ tm_st.visible /\ tm_st.rate_dl_mbps > 0) =>
        /\ tickGen <= BurstBudget
        /\ tickSent <= tickGen
        /\ tm_pc = "sleep" => tickGen = BurstBudget

\* A burst cut at MAX_PKTS_PER_STEP has ended, and the channel dropped part of it.
C8_Witness ==
    /\ tm_pc = "sleep"
    /\ tm_st # NoState
    /\ (tm_st.rate_dl_mbps * TIME_STEP_S) \div BITS_PER_PACKET > MAX_PKTS_PER_STEP
    /\ tickGen = MAX_PKTS_PER_STEP
    /\ tickSent < tickGen

\* s + 1 modulo 2^32, s given as <<high, low>> 16-bit halves.
Plus1Mod32(s) ==
    IF s = <<65535, 65535>> THEN <<0, 0>>
    ELSE IF s[2] = 65535 THEN <<s[1] + 1, 0>>
    ELSE <<s[1], s[2] + 1>>

\* C9: seq advances by exactly 1 modulo 2^32 for every generated packet,
\* dropped or not, and is never reset: a generated packet carries seq, and
\* from its return on (through skipped ticks and into the next burst) seq is
\* the last generated seq + 1 mod 2^32.
C9_SeqAdvancesPerPacket ==
    /\ tm_pc = "call" => prop["tm"].packet.seq = seq /\ lastGen = seq
    /\ (tm_pc # "call" /\ lastGen # <<-1, -1>>) => seq = Plus1Mod32(lastGen)

\* The first packet of a later tick carried 2^32 - 1 and was dropped; seq wrapped to 0.
C9_Witness ==
    /\ tm_pc = "loop"
    /\ genTotal = 2
    /\ tickGen = 1
    /\ tickSent = 0
    /\ lastGen = <<65535, 65535>>
    /\ seq = <<0, 0>>

(***************************************************************************)
(* Claims about the BBU's TM ingress (SpecBbu).                            *)
(***************************************************************************)
\* C10: every TM datagram received is appended to history, and it is appended
\* to live if and only if the geometry is visible when tm_receiver takes it
\* in; so every frame ever appended to live was appended to history and was
\* received while visible.
C10_LiveIffVisibleAtIngress ==
    /\ everLive \subseteq everHist
    /\ everLive \subseteq rxVisible
    /\ \A id \in 1..tmRx : id \in rxDone \/ id = brx_raw.id
    /\ \A id \in rxDone :
         /\ id \in everHist
         /\ id \in everLive <=> id \in rxVisible

\* One frame went to history and live, another one to history only.
C10_Witness ==
    \E a, b \in rxDone :
        /\ a \in everLive /\ a \in everHist
        /\ b \notin everLive /\ b \in everHist

(***************************************************************************)
(* Claims about the BBU's TM buffers and the distributor (SpecWeb).        *)
(***************************************************************************)
\* C11 as stated: in every state another BBU activity can observe, and in
\* every pair of lengths status_printer prints, |live| <= LIVE_CAP and
\* |history| <= HIST_CAP.
C11_CapsNeverExceeded ==
    /\ Len(telemetry_live) <= LIVE_CAP
    /\ Len(telemetry_history) <= HIST_CAP
    /\ s_obs.live <= LIVE_CAP
    /\ s_obs.hist <= HIST_CAP

\* Number of times the arrival id occurs in a list of frames.
Occurrences(id, list) == Cardinality({ i \in DOMAIN list : list[i].id = id })

\* C12 as stated: at the moment a TM frame is sent to the client, tagged LIVE
\* or HIST, that frame occurs exactly once in history.
C12_SentFrameOnceInHistory ==
    (d_pc = "send" /\ web_up) => Occurrences(d_tm.id, telemetry_history) = 1

\* No element occurs twice in the sequence.
NoDup(list) == \A i, j \in DOMAIN list : list[i] = list[j] => i = j

\* C13 as stated: each frame appended to live is removed from live at most
\* once, only the distributor removes frames from live, and no frame is sent
\* with the LIVE tag more than once.
C13_LiveRemovedOnceByDistributor ==
    /\ NoDup(livePopped)
    /\ truncRemoved = {}
    /\ NoDup(liveSent)

\* C14: a HIST send leaves history unchanged: the distributor reads the newest
\* history frame without removing it, and a HIST read that follows another
\* with no ingress in between yields the same frame.
C14_HistSendIsPeek ==
    [][ (d_pc' # d_pc /\ (d_pc \in {"hist", "hread"} \/ (d_pc = "send" /\ d_tag = "HIST"))) =>
          /\ telemetry_history' = telemetry_history
          /\ (d_pc = "hread" /\ d_pc' = "send") =>
               /\ d_tag' = "HIST"
               /\ d_tm' = telemetry_history[Len(telemetry_history)]
               /\ prevHist # NoPrev => d_tm' = prevHist.frame ]_vars

\* During an outage the distributor is about to send, for the second time in
\* a row, the newest frame of a history that holds HIST_CAP frames.
C14_Witness ==
    /\ d_pc = "send"
    /\ d_tag = "HIST"
    /\ web_up
    /\ prevHist.again
    /\ ~get_state(now).visible
    /\ Len(telemetry_history) = HIST_CAP
    /\ d_tm = telemetry_history[Len(telemetry_history)]

\* The commands of a log, in order.
Cmds(log) == [i \in DOMAIN log |-> log[i].cmd]

RECURSIVE IsSubseq(_, _)
IsSubseq(a, b) ==
    IF a = <<>> THEN TRUE
    ELSE IF b = <<>> THEN FALSE
    ELSE IF a[1] = b[1] THEN IsSubseq(Tail(a), Tail(b))
    ELSE IsSubseq(a, Tail(b))

IsPrefix(a, b) == Len(a) <= Len(b) /\ a = SubSeq(b, 1, Len(a))

\* C15: telecommands are FIFO end to end.  With UDP delivering in send order,
\* the commands the spacecraft executor has dequeued are a subsequence of the
\* commands in the order the BBU enqueued them; the BBU uplink activity takes
\* them in that order, what it sends is a subsequence of them, and the
\* spacecraft receives and dequeues them in the order sent.
C15_FifoEndToEnd ==
    /\ IsSubseq(Cmds(exLog), bbuEnq)
    /\ IsPrefix(Cmds(txLog), bbuEnq)
    /\ IsSubseq([i \in DOMAIN txSent |-> Decode(txSent[i])], Cmds(txLog))
    /\ IsPrefix(satEnq, [i \in DOMAIN txSent |-> Decode(txSent[i])])
    /\ IsPrefix(Cmds(exLog), satEnq)

C15_Witness ==
    /\ Len(bbuEnq) = 2
    /\ bbuEnq[1] # bbuEnq[2]
    /\ Len(exLog) = 2
    /\ Cmds(exLog) = bbuEnq
    /\ exLog[2].res # "pending"

RECURSIVE SentOf(_)
SentOf(log) == IF log = <<>> THEN <<>> ELSE log[1].sent \o SentOf(Tail(log))

\* C17: for every command the BBU uplink activity dequeued: if the channel
\* returned DROPPED nothing is sent for it; if the channel returned a packet,
\* corrupted or not, the command's UTF-8 bytes are sent exactly once; the
\* datagrams sent are those and no others; and no dequeued command is back
\* in the queue: the queue is what was enqueued after the dequeued commands.
C17_VerdictDecidesSend ==
    /\ \A i \in DOMAIN txLog :
         LET e == txLog[i]
         IN  IF e.out = None
             THEN e.sent = <<>>
             ELSE IF i = Len(txLog) /\ tx_pc = "send"
             THEN e.sent = <<>>
             ELSE e.sent = <<Encode(e.cmd)>> /\ Decode(e.sent[1]) = e.cmd
    /\ txSent = SentOf(txLog)
    /\ Len(txLog) <= Len(bbuEnq)
    /\ telecommand_queue = SubSeq(bbuEnq, Len(txLog) + 1, Len(bbuEnq))

C17_Witness ==
    /\ tx_pc = "top"
    /\ Len(txLog) = 2
    /\ \E i, j \in DOMAIN txLog :
         /\ txLog[i].out = None
         /\ txLog[i].sent = <<>>
         /\ txLog[j].out # None
         /\ txLog[j].out.pkt.corrupted
         /\ txLog[j].sent = <<Encode(txLog[j].cmd)>>
         /\ 65533 \in { txLog[j].cmd[k] : k \in DOMAIN txLog[j].cmd }

\* C18: a command is executed only if the executor had read visible = true
\* before dequeuing it and the channel returned for it a packet that is
\* neither DROPPED nor corrupted; a command the channel dropped or corrupted
\* is lost or ignored; no dequeued command is back in the queue, so each
\* command received is dequeued, and executed, at most once.
C18_ExecutedOnlyIfVisibleAndClean ==
    /\ \A i \in DOMAIN exLog :
         LET e == exLog[i]
         IN  /\ e.vis
             /\ e.res = "executed"
                  => e.out \notin {None, NoRet} /\ ~e.out.pkt.corrupted
             /\ e.out = None => e.res = "lost"
             /\ (e.out \notin {None, NoRet} /\ e.out.pkt.corrupted) => e.res = "ignored"
             /\ e.res = "pending" <=> (i = Len(exLog) /\ ex_pc = "call")
    /\ Len(exLog) <= Len(satEnq)
    /\ Cmds(exLog) = SubSeq(satEnq, 1, Len(exLog))
    /\ sat_q = SubSeq(satEnq, Len(exLog) + 1, Len(satEnq))

C18_Witness ==
    /\ ex_pc = "top"
    /\ Len(exLog) = 2
    /\ \E i, j \in DOMAIN exLog :
         /\ exLog[i].res = "executed"
         /\ exLog[i].vis
         /\ ~exLog[i].out.pkt.corrupted
         /\ exLog[j].res = "ignored"
         /\ exLog[j].out.pkt.corrupted
    /\ sat_q = <<>>

\* Bytes that are not valid UTF-8: decoding replaces something, so encoding
\* the decoded string does not give the bytes back.
Malformed(data) == Encode(Decode(data)) # data

\* C19: a malformed TC datagram received by the spacecraft is queued as its
\* lossy decode (trimmed), and the command it yields is never executed.
C19_MalformedNeverExecuted ==
    /\ \A i \in DOMAIN satEnq :
         \E d \in TcDatagrams : satEnq[i] = Strip(Decode(d))
    /\ \A i \in DOMAIN exLog :
         (\E d \in TcDatagrams : Malformed(d) /\ exLog[i].cmd = Strip(Decode(d)))
            => exLog[i].res # "executed"

\* C20: once running is false in a process, every activity of that process
\* eventually returns from its loop, having seen the flag, also when no
\* further datagram or connection arrives.
C20_ShutdownObservedByAll ==
    /\ (~running) ~> (tm_pc = "done" /\ rx_pc = "done" /\ ex_pc = "done")
    /\ (~b_running) ~> (tcw_pc = "done" /\ tx_pc = "done")

\* C21: when the propagator back-end cannot be initialised, because the
\* library is missing or because the orbital elements are malformed, no
\* get_state call raises, and every state returned is the fallback's.
C21_DegradesToFallback ==
    (~sf_ready \/ ~tle_ok) =>
        /\ orb_err = "none"
        /\ orb_st # NoState => orb_st.elev_deg = state_fallback(orb_st.ts)

\* C22: a send that fails on the TM stream connection closes that connection
\* and takes the TM stream server back to accept, where it serves the next
\* client; the distributor activity never ends; and the BBU holds at most
\* one TM stream connection, which it holds exactly while it is not in accept.
C22_SendFailureBackToAccept ==
    /\ [](/\ d_conn.open <= 1
          /\ d_pc \notin {"dead", "done", "killed"}
          /\ d_conn.open = 1 <=> d_pc # "accept")
    /\ [][ (d_pc = "send" /\ ~web_up /\ d_pc' # d_pc)
             => (d_pc' = "accept" /\ d_conn'.open = 0) ]_vars

C22_Witness ==
    /\ d_conn.failed
    /\ d_conn.open = 1
    /\ web_up
    /\ d_pc = "send"

\* C23 as stated: for every TM datagram sent, the geometry is visible at the
\* time of the send.
C23_VisibleAtSend ==
    lastSend.sent => lastSend.at

\* a < b for 32-bit values given as <<high, low>> 16-bit halves.
SeqLess(a, b) == a[1] < b[1] \/ (a[1] = b[1] /\ a[2] < b[2])

\* s + k modulo 2^32.
RECURSIVE SeqPlus(_, _)
SeqPlus(s, k) == IF k = 0 THEN s ELSE SeqPlus(Plus1Mod32(s), k - 1)

\* C24 as stated: within a tick burst the seq values of the TM datagrams sent
\* are strictly increasing in send order, also when the counter wraps.
C24_StrictlyIncreasing ==
    \A i, j \in DOMAIN tickSeqs : i < j => SeqLess(tickSeqs[i], tickSeqs[j])

\* C24 amended: within a tick burst each TM datagram sent carries the seq of
\* the one sent before it plus k modulo 2^32, where 1 <= k <= the burst size
\* (k - 1 packets were dropped in between); the values are strictly
\* increasing unless the counter passes 2^32 - 1 inside the burst, and then
\* the datagram sent after the wrap carries a smaller seq.
C24_IncreasingModulo ==
    \A i \in 1..(Len(tickSeqs) - 1) :
        \E k \in 1..MAX_PKTS_PER_STEP :
            /\ tickSeqs[i + 1] = SeqPlus(tickSeqs[i], k)
            /\ SeqLess(tickSeqs[i], tickSeqs[i + 1])
                 <=> \A m \in 0..(k - 1) : SeqPlus(tickSeqs[i], m) # <<65535, 65535>>

\* A burst sent 2^32 - 1 and then 0.
C24_Witness ==
    tickSeqs = << <<65535, 65535>>, <<0, 0>> >>

\* C25: a step of the distributor that takes a frame takes the oldest frame
\* of live, removing it, and tags it LIVE when the geometry was visible and
\* live was not empty; otherwise it takes the newest frame of history,
\* leaving it, and tags it HIST; with both empty it takes nothing.  So the
\* LIVE records sent follow the order in which their frames were received:
\* their arrival numbers increase.
C25_LiveOldestFirstInOrder ==
    /\ [][ /\ (d_pc = "select" /\ d_pc' # d_pc)
               => d_pc' = IF get_state(now).visible /\ telemetry_live # <<>>
                          THEN "pop" ELSE "hist"
           /\ (d_pc = "pop" /\ d_pc' = "send")
               => /\ d_tag' = "LIVE"
                  /\ d_tm' = telemetry_live[1]
                  /\ telemetry_live' = Tail(telemetry_live)
           /\ (d_pc = "hist" /\ d_pc' # d_pc)
               => IF telemetry_history # <<>>
                  THEN d_pc' = "hread"
                  ELSE d_pc' = "select" /\ d_tag' = "none"
           /\ (d_pc = "hread" /\ d_pc' # d_pc)
               => /\ d_pc' = "send"
                  /\ d_tag' = "HIST"
                  /\ d_tm' = telemetry_history[Len(telemetry_history)] ]_vars
    /\ [](\A i, j \in DOMAIN liveSent : i < j => liveSent[i] < liveSent[j])

\* C26: a telecommand is held, not discarded: a command leaves the BBU queue
\* or the spacecraft queue only for an activity that has just read the
\* geometry as visible, and every command enqueued in either queue is
\* eventually dequeued, given that passes keep coming and the activities are
\* scheduled fairly.
C26_HeldUntilVisibleThenDequeued ==
    /\ [][ /\ ~IsPrefix(telecommand_queue, telecommand_queue')
               => tx_st # NoState /\ tx_st.visible
           /\ ~IsPrefix(sat_q, sat_q')
               => ex_st # NoState /\ ex_st.visible
           /\ (tx_pc = "top" /\ ~get_state(now).visible)
               => IsPrefix(telecommand_queue, telecommand_queue')
           /\ (ex_pc = "top" /\ ~get_state(now).visible)
               => IsPrefix(sat_q, sat_q') ]_vars
    /\ (telecommand_queue # <<>>) ~> (telecommand_queue = <<>>)
    /\ (sat_q # <<>>) ~> (sat_q = <<>>)

\* During an outage a command the BBU has sent waits in the spacecraft
\* queue, the executor polling.
C26_Witness ==
    /\ ~get_state(now).visible
    /\ tx_pc = "top" /\ ex_pc = "top"
    /\ telecommand_queue = <<>>
    /\ Len(txLog) = 1
    /\ Len(sat_q) = 1

\* The commands tc_sender has dequeued and is done with.
TxDone == { i \in DOMAIN txLog : i < Len(txLog) \/ tx_pc # "send" }

C28_CorruptedIffInputOrBitError ==
    \A t \in Callers :
        (prop[t].pc = "ret" /\ ~prop[t].out.none) =>
            LET packet == prop[t].packet
                out == prop[t].out.pkt
            IN  /\ out.corrupted = (Get(packet, "corrupted", FALSE) \/ prop[t].ber)
                /\ prop[t].ber => Get(out, "rf_note", "absent") = "bit_error"
                /\ ~prop[t].ber =>
                       Get(out, "rf_note", "absent") = Get(packet, "rf_note", "absent")

\* A packet that came in corrupted is returned corrupted by a call whose
\* bit-error draw failed, with no rf_note added.
C28_Witness ==
    /\ prop["h"].pc = "ret"
    /\ ~prop["h"].out.none
    /\ ~prop["h"].ber
    /\ Get(prop["h"].packet, "corrupted", FALSE)
    /\ prop["h"].out.pkt.corrupted
    /\ "rf_note" \notin DOMAIN prop["h"].out.pkt

\* C29: under every interleaving no activity removes or reads an element
\* of an empty buffer: when the distributor is at its pop of live, or at its
\* read of history, the list still holds a frame, whatever TM ingress has
\* stored since the test; the uplink activity at its pop finds a command in
\* telecommand_queue; and no activity has failed on an empty list.
C29_AccessFindsElement ==
    /\ d_pc = "pop" => telemetry_live # <<>>
    /\ d_pc = "hread" => telemetry_history # <<>>
    /\ tx_pc = "pop" => telecommand_queue # <<>>
    /\ d_pc # "dead"

\* The distributor has tested live and is at its pop while TM ingress, with
\* live over its cap, is about to store the truncated slice.
C29_Witness ==
    /\ d_pc = "pop"
    /\ brx_pc = "live_store"
    /\ Len(telemetry_live) > LIVE_CAP

====
